---- MODULE Spec2Model ----
(***************************************************************************)
(* Model of consensus/equality/header_extra.go: the header-extra payload   *)
(* (HeaderExtra), its gzip+RLP envelope (Encode / NewHeaderExtra), the     *)
(* byte-range extraction (DecodeHeaderExtra), deep equality (Equal), the   *)
(* root divergence report (Root.PrintDifference) and the address helpers   *)
(* (addressesExist / addressesDistinct / addressesRemove).                 *)
(*                                                                         *)
(* Every function of the file is synchronous and keeps no state between    *)
(* calls, so a behaviour is one call: Init draws the function and its      *)
(* arguments, the function's action computes what the call returns.        *)
(***************************************************************************)
EXTENDS Integers, Sequences, FiniteSets, TLC

VARIABLES pc, op, args, ret, heap

vars == <<pc, op, args, ret, heap>>

(***************************************************************************)
(* Bounds of the explored inputs.                                          *)
(***************************************************************************)
\* longest address slice handed to an address helper
MaxLen == 4
\* largest block number handed to PrintDifference
MaxNumber == 1
\* largest Epoch and EpochBlock of a payload
MaxEpoch == 1
\* largest weight of a payload handed to Encode
MaxWeight == 2
\* largest weight of the two payloads handed to Equal, taken together
MaxPairWeight == 4
\* largest vanity and seal lengths handed to DecodeHeaderExtra
MaxVanity == 2
MaxSeal == 2

(***************************************************************************)
(* Values: common.Address and common.Hash are fixed-width byte arrays.     *)
(***************************************************************************)
AddressLength == 20
HashLength == 32

Addr(b) == [i \in 1..AddressLength |-> b]
HashOf(b) == [i \in 1..HashLength |-> b]

\* the zero value of common.Address, what make() fills a fresh array with
ZeroAddress == Addr(0)

AddrA == Addr(161)
AddrB == Addr(178)
AddrC == Addr(195)
Address == {AddrA, AddrB, AddrC}

Hash == {HashOf(1), HashOf(2)}

\* type Root struct
Root == [EpochHash : Hash, CandidateHash : Hash, MintCntHash : Hash, ConfigHash : Hash]

SeqsUpTo(S, n) == UNION {[1..k -> S] : k \in 0..n}

(***************************************************************************)
(* Go slices of addresses. heap is the sequence of backing arrays, a slice *)
(* is a window [arr, len, cap] that starts at the array's first element.   *)
(***************************************************************************)
SliceOf(arr, n) == [arr |-> arr, len |-> n, cap |-> n]

\* slice[i], 1-based
At(h, slice, i) == h[slice.arr][i]

\* the slice's elements as a value
View(h, slice) == [i \in 1..slice.len |-> h[slice.arr][i]]

\* make([]common.Address, 0, n)
MakeSlice(h, n) ==
    [heap  |-> Append(h, [i \in 1..n |-> ZeroAddress]),
     slice |-> [arr |-> Len(h) + 1, len |-> 0, cap |-> n]]

\* append(slice, x): in place while capacity lasts, else a grown copy
AppendAddr(h, slice, x) ==
    IF slice.len < slice.cap
    THEN [heap  |-> [h EXCEPT ![slice.arr][slice.len + 1] = x],
          slice |-> [slice EXCEPT !.len = slice.len + 1]]
    ELSE LET newcap == IF slice.cap = 0 THEN 1 ELSE 2 * slice.cap
             grown  == [i \in 1..newcap |->
                          IF i <= slice.len THEN h[slice.arr][i]
                          ELSE IF i = slice.len + 1 THEN x ELSE ZeroAddress]
         IN [heap  |-> Append(h, grown),
             slice |-> [arr |-> Len(h) + 1, len |-> slice.len + 1, cap |-> newcap]]

(***************************************************************************)
(* addressesExist                                                          *)
(***************************************************************************)
RECURSIVE ExistLoop(_, _, _, _)
ExistLoop(h, slice, addr, i) ==
    IF i > slice.len THEN FALSE
    ELSE IF At(h, slice, i) = addr THEN TRUE
    ELSE ExistLoop(h, slice, addr, i + 1)

addressesExist(h, slice, addr) == ExistLoop(h, slice, addr, 1)

(***************************************************************************)
(* addressesDistinct                                                       *)
(***************************************************************************)
\* the loop of addressesDistinct: st = [heap, slice] of result, set = the map's keys
RECURSIVE DistinctLoop(_, _, _, _)
DistinctLoop(st, slice, set, i) ==
    IF i > slice.len THEN st
    ELSE LET address == At(st.heap, slice, i)
         IN IF address \notin set
            THEN DistinctLoop(AppendAddr(st.heap, st.slice, address), slice,
                              set \cup {address}, i + 1)
            ELSE DistinctLoop(st, slice, set, i + 1)

\* a dedupe that keeps the last occurrence of each address instead of the first
RECURSIVE DistinctLastLoop(_, _, _)
DistinctLastLoop(st, slice, i) ==
    IF i > slice.len THEN st
    ELSE LET address == At(st.heap, slice, i)
             later   == \E j \in (i + 1)..slice.len : At(st.heap, slice, j) = address
         IN IF ~later
            THEN DistinctLastLoop(AppendAddr(st.heap, st.slice, address), slice, i + 1)
            ELSE DistinctLastLoop(st, slice, i + 1)

addressesDistinctKeepLast(h, slice) ==
    IF slice.len <= 1 THEN [heap |-> h, slice |-> slice]
    ELSE DistinctLastLoop(MakeSlice(h, slice.len), slice, 1)

addressesDistinct(h, slice) ==
    IF slice.len <= 1 THEN [heap |-> h, slice |-> slice]
    ELSE DistinctLoop(MakeSlice(h, slice.len), slice, {}, 1)

(***************************************************************************)
(* addressesRemove                                                         *)
(***************************************************************************)
RECURSIVE RemoveLoop(_, _, _, _)
RemoveLoop(st, slice, addr, i) ==
    IF i > slice.len THEN st
    ELSE LET address == At(st.heap, slice, i)
         IN IF address # addr
            THEN RemoveLoop(AppendAddr(st.heap, st.slice, address), slice, addr, i + 1)
            ELSE RemoveLoop(st, slice, addr, i + 1)

\* the filter-in-place idiom, result := slice[:0], which writes into the caller's array
addressesRemoveInPlace(h, slice, addr) ==
    RemoveLoop([heap |-> h, slice |-> [slice EXCEPT !.len = 0]], slice, addr, 1)

\* a removal that stops after the first occurrence
RECURSIVE RemoveFirstLoop(_, _, _, _, _)
RemoveFirstLoop(st, slice, addr, i, removed) ==
    IF i > slice.len THEN st
    ELSE LET address == At(st.heap, slice, i)
         IN IF address # addr \/ removed
            THEN RemoveFirstLoop(AppendAddr(st.heap, st.slice, address), slice, addr,
                                 i + 1, removed)
            ELSE RemoveFirstLoop(st, slice, addr, i + 1, TRUE)

addressesRemoveFirst(h, slice, addr) ==
    RemoveFirstLoop(MakeSlice(h, slice.len), slice, addr, 1, FALSE)

addressesRemove(h, slice, addr) ==
    RemoveLoop(MakeSlice(h, slice.len), slice, addr, 1)

(***************************************************************************)
(* Root.PrintDifference. A formatted line is the tuple of the format's     *)
(* label and its arguments; the printed text is its sequence of lines.     *)
(***************************************************************************)
Banner == <<"######### Root Hash Difference #########">>

HexDigits == <<"0", "1", "2", "3", "4", "5", "6", "7",
               "8", "9", "a", "b", "c", "d", "e", "f">>

\* common.Hash.String(): "0x" and two hexadecimal digits per byte
HashString(h) ==
    <<"0x">> \o [i \in 1..(2 * Len(h)) |->
                   IF i % 2 = 1 THEN HexDigits[(h[(i + 1) \div 2] \div 16) + 1]
                   ELSE HexDigits[(h[i \div 2] % 16) + 1]]

\* if a != b { slice = append(slice, fmt.Sprintf("<name>: %s ---- %s", a, b)) }
DiffLine(name, a, b) ==
    IF a # b THEN << <<name, HashString(a), HashString(b)>> >> ELSE << >>

\* a report that prints the other root's value on both sides
PrintDifferenceOneSided(root, number, other) ==
    LET Line(name, a, b) ==
            IF a # b THEN << <<name, HashString(b), HashString(b)>> >> ELSE << >>
        slice == << <<"BlockNumber", number>> >>
                 \o Line("EpochHash", root.EpochHash, other.EpochHash)
                 \o Line("CandidateHash", root.CandidateHash, other.CandidateHash)
                 \o Line("MintCntHash", root.MintCntHash, other.MintCntHash)
                 \o Line("ConfigHash", root.ConfigHash, other.ConfigHash)
    IN <<Banner>> \o slice

PrintDifference(root, number, other) ==
    LET slice == << <<"BlockNumber", number>> >>
                 \o DiffLine("EpochHash", root.EpochHash, other.EpochHash)
                 \o DiffLine("CandidateHash", root.CandidateHash, other.CandidateHash)
                 \o DiffLine("MintCntHash", root.MintCntHash, other.MintCntHash)
                 \o DiffLine("ConfigHash", root.ConfigHash, other.ConfigHash)
    IN <<Banner>> \o slice

(***************************************************************************)
(* HeaderExtra and its Equal                                               *)
(***************************************************************************)
\* params.EqualityConfig: a configuration snapshot, compared by its own Equal
EqualityConfig == [Period : 0..1, Epoch : 0..1]

ConfigEqual(config, other) ==
    /\ config.Period = other.Period
    /\ config.Epoch = other.Epoch

\* the zero value HeaderExtra{}
ZeroRoot ==
    [EpochHash |-> HashOf(0), CandidateHash |-> HashOf(0),
     MintCntHash |-> HashOf(0), ConfigHash |-> HashOf(0)]

ZeroHeaderExtra ==
    [Root |-> ZeroRoot, Epoch |-> 0, EpochBlock |-> 0,
     CurrentBlockCandidates |-> << >>, CurrentBlockKickOutCandidates |-> << >>,
     CurrentBlockCancelCandidates |-> << >>, CurrentEpochValidators |-> << >>,
     ChainConfig |-> << >>]

\* for idx, config := range xs { if !config.Equal(ys[idx]) { return false } }
RECURSIVE ConfigLoop(_, _, _)
ConfigLoop(xs, ys, idx) ==
    IF idx > Len(xs) THEN TRUE
    ELSE IF ~ConfigEqual(xs[idx], ys[idx]) THEN FALSE
    ELSE ConfigLoop(xs, ys, idx + 1)

SameConfigs(xs, ys) ==
    IF Len(xs) # Len(ys) THEN FALSE ELSE ConfigLoop(xs, ys, 1)

\* for idx, candidate := range xs { if candidate != ys[idx] { return false } }
RECURSIVE AddressLoop(_, _, _)
AddressLoop(xs, ys, idx) ==
    IF idx > Len(xs) THEN TRUE
    ELSE IF xs[idx] # ys[idx] THEN FALSE
    ELSE AddressLoop(xs, ys, idx + 1)

\* a comparison of the two lists as sets of addresses
SameAddressesAsSets(xs, ys) ==
    IF Len(xs) # Len(ys) THEN FALSE
    ELSE {xs[i] : i \in 1..Len(xs)} = {ys[i] : i \in 1..Len(ys)}

\* a length check that only rejects a longer receiver, so that a list equals
\* every list it is a prefix of
SameAddressesPrefix(xs, ys) ==
    IF Len(xs) > Len(ys) THEN FALSE ELSE AddressLoop(xs, ys, 1)

SameAddresses(xs, ys) ==
    IF Len(xs) # Len(ys) THEN FALSE ELSE AddressLoop(xs, ys, 1)

Equal(headerExtra, other) ==
    IF headerExtra.Root # other.Root THEN FALSE
    ELSE IF headerExtra.Epoch # other.Epoch THEN FALSE
    ELSE IF headerExtra.EpochBlock # other.EpochBlock THEN FALSE
    ELSE IF ~SameConfigs(headerExtra.ChainConfig, other.ChainConfig) THEN FALSE
    ELSE IF ~SameAddresses(headerExtra.CurrentBlockCandidates,
                           other.CurrentBlockCandidates) THEN FALSE
    ELSE IF ~SameAddresses(headerExtra.CurrentBlockKickOutCandidates,
                           other.CurrentBlockKickOutCandidates) THEN FALSE
    ELSE IF ~SameAddresses(headerExtra.CurrentBlockCancelCandidates,
                           other.CurrentBlockCancelCandidates) THEN FALSE
    ELSE IF ~SameAddresses(headerExtra.CurrentEpochValidators,
                           other.CurrentEpochValidators) THEN FALSE
    ELSE TRUE

(***************************************************************************)
(* Bytes                                                                   *)
(***************************************************************************)
RECURSIVE Flatten(_)
Flatten(ss) == IF ss = << >> THEN << >> ELSE Head(ss) \o Flatten(Tail(ss))

\* n > 0 as big-endian bytes without leading zeros
RECURSIVE BigEndian(_)
BigEndian(n) == IF n < 256 THEN <<n>> ELSE BigEndian(n \div 256) \o <<n % 256>>

RECURSIVE BigEndianValue(_)
BigEndianValue(bs) ==
    IF bs = << >> THEN 0
    ELSE 256 * BigEndianValue(SubSeq(bs, 1, Len(bs) - 1)) + bs[Len(bs)]

\* n as k little-endian bytes
RECURSIVE LittleEndian(_, _)
LittleEndian(n, k) ==
    IF k = 0 THEN << >> ELSE <<n % 256>> \o LittleEndian(n \div 256, k - 1)

RECURSIVE LittleEndianValue(_)
LittleEndianValue(bs) ==
    IF bs = << >> THEN 0 ELSE bs[1] + 256 * LittleEndianValue(Tail(bs))

(***************************************************************************)
(* rlp.EncodeToBytes / rlp.DecodeBytes for HeaderExtra: the structured     *)
(* serializer. Byte arrays and unsigned integers are strings, structs and  *)
(* slices are lists, fields in declaration order, elements in slice order. *)
(***************************************************************************)
RlpHead(base, n) ==
    IF n <= 55 THEN <<base + n>>
    ELSE LET be == BigEndian(n) IN <<base + 55 + Len(be)>> \o be

RlpString(bs) ==
    IF Len(bs) = 1 /\ bs[1] < 128 THEN bs ELSE RlpHead(128, Len(bs)) \o bs

RlpUint(n) == IF n = 0 THEN <<128>> ELSE RlpString(BigEndian(n))

RlpList(items) == LET body == Flatten(items) IN RlpHead(192, Len(body)) \o body

RlpRoot(root) ==
    RlpList(<<RlpString(root.EpochHash), RlpString(root.CandidateHash),
              RlpString(root.MintCntHash), RlpString(root.ConfigHash)>>)

RlpAddresses(s) == RlpList([i \in 1..Len(s) |-> RlpString(s[i])])

RlpConfig(c) == RlpList(<<RlpUint(c.Period), RlpUint(c.Epoch)>>)

RlpConfigs(s) == RlpList([i \in 1..Len(s) |-> RlpConfig(s[i])])

EncodeToBytes(headerExtra) ==
    RlpList(<<RlpRoot(headerExtra.Root),
              RlpUint(headerExtra.Epoch),
              RlpUint(headerExtra.EpochBlock),
              RlpAddresses(headerExtra.CurrentBlockCandidates),
              RlpAddresses(headerExtra.CurrentBlockKickOutCandidates),
              RlpAddresses(headerExtra.CurrentBlockCancelCandidates),
              RlpAddresses(headerExtra.CurrentEpochValidators),
              RlpConfigs(headerExtra.ChainConfig)>>)

Bad == [ok |-> FALSE]
Good(v) == [ok |-> TRUE, val |-> v]
RlpStr(bs) == [kind |-> "str", bytes |-> bs]

\* the item that starts at bs[pos] and must end by bs[limit], as a tree of
\* strings and lists; sizes must be canonical
RECURSIVE ParseItem(_, _, _)
RECURSIVE ParseItems(_, _, _)
ParseItem(bs, pos, limit) ==
    IF pos > limit THEN Bad
    ELSE LET b     == bs[pos]
             long  == b \in 184..191 \/ b >= 248
             ll    == IF b >= 248 THEN b - 247 ELSE IF long THEN b - 183 ELSE 0
             size  == IF long
                      THEN (IF pos + ll > limit THEN 0
                            ELSE BigEndianValue(SubSeq(bs, pos + 1, pos + ll)))
                      ELSE IF b >= 192 THEN b - 192 ELSE b - 128
             first == pos + ll + 1
             last  == pos + ll + size
         IN IF b < 128 THEN [ok |-> TRUE, val |-> RlpStr(<<b>>), next |-> pos + 1]
            ELSE IF long /\ (pos + ll > limit \/ bs[pos + 1] = 0 \/ size < 56) THEN Bad
            ELSE IF last > limit THEN Bad
            ELSE IF b < 192
            THEN IF size = 1 /\ bs[first] < 128 THEN Bad
                 ELSE [ok |-> TRUE, val |-> RlpStr(SubSeq(bs, first, last)), next |-> last + 1]
            ELSE LET items == ParseItems(bs, first, last)
                 IN IF ~items.ok THEN Bad
                    ELSE [ok |-> TRUE, val |-> [kind |-> "list", items |-> items.val],
                          next |-> last + 1]

ParseItems(bs, pos, limit) ==
    IF pos > limit THEN Good(<< >>)
    ELSE LET item == ParseItem(bs, pos, limit)
         IN IF ~item.ok THEN Bad
            ELSE LET rest == ParseItems(bs, item.next, limit)
                 IN IF ~rest.ok THEN Bad ELSE Good(<<item.val>> \o rest.val)

\* a uint64: a string of at most 8 bytes without a leading zero
ToUint(v) ==
    IF v.kind # "str" \/ Len(v.bytes) > 8 THEN Bad
    ELSE IF Len(v.bytes) > 0 /\ v.bytes[1] = 0 THEN Bad
    ELSE Good(BigEndianValue(v.bytes))

\* a byte array of n bytes: a string of exactly n bytes
ToFixed(v, n) ==
    IF v.kind # "str" \/ Len(v.bytes) # n THEN Bad ELSE Good(v.bytes)

ToRoot(v) ==
    IF v.kind # "list" \/ Len(v.items) # 4 THEN Bad
    ELSE IF \E i \in 1..4 : ~ToFixed(v.items[i], HashLength).ok THEN Bad
    ELSE Good([EpochHash     |-> v.items[1].bytes, CandidateHash |-> v.items[2].bytes,
               MintCntHash   |-> v.items[3].bytes, ConfigHash    |-> v.items[4].bytes])

ToAddresses(v) ==
    IF v.kind # "list" THEN Bad
    ELSE IF \E i \in 1..Len(v.items) : ~ToFixed(v.items[i], AddressLength).ok THEN Bad
    ELSE Good([i \in 1..Len(v.items) |-> v.items[i].bytes])

ToConfig(v) ==
    IF v.kind # "list" \/ Len(v.items) # 2 THEN Bad
    ELSE IF ~ToUint(v.items[1]).ok \/ ~ToUint(v.items[2]).ok THEN Bad
    ELSE Good([Period |-> ToUint(v.items[1]).val, Epoch |-> ToUint(v.items[2]).val])

ToConfigs(v) ==
    IF v.kind # "list" THEN Bad
    ELSE IF \E i \in 1..Len(v.items) : ~ToConfig(v.items[i]).ok THEN Bad
    ELSE Good([i \in 1..Len(v.items) |-> ToConfig(v.items[i]).val])

ToHeaderExtra(v) ==
    IF v.kind # "list" \/ Len(v.items) # 8 THEN Bad
    ELSE LET f == v.items
         IN IF \/ ~ToRoot(f[1]).ok \/ ~ToUint(f[2]).ok \/ ~ToUint(f[3]).ok
               \/ \E k \in 4..7 : ~ToAddresses(f[k]).ok
               \/ ~ToConfigs(f[8]).ok
            THEN Bad
            ELSE Good([Root |-> ToRoot(f[1]).val,
                       Epoch |-> ToUint(f[2]).val,
                       EpochBlock |-> ToUint(f[3]).val,
                       CurrentBlockCandidates |-> ToAddresses(f[4]).val,
                       CurrentBlockKickOutCandidates |-> ToAddresses(f[5]).val,
                       CurrentBlockCancelCandidates |-> ToAddresses(f[6]).val,
                       CurrentEpochValidators |-> ToAddresses(f[7]).val,
                       ChainConfig |-> ToConfigs(f[8]).val])

\* rlp.DecodeBytes(b, &headerExtra): b must hold exactly one value
DecodeBytes(bs) ==
    LET top == ParseItem(bs, 1, Len(bs))
    IN IF ~top.ok THEN Bad
       ELSE IF top.next # Len(bs) + 1 THEN Bad
       ELSE ToHeaderExtra(top.val)

(***************************************************************************)
(* compress/gzip as Encode and NewHeaderExtra see it. A member is the      *)
(* 10-byte header, a deflate body (written here as one stored block) and   *)
(* the trailer of checksum and size. Header flags are always zero.         *)
(***************************************************************************)
GzipHeader == <<31, 139, 8, 0, 0, 0, 0, 0, 0, 255>>

\* the checksum of the trailer, a digest of the uncompressed bytes (CRC-32 in
\* the library; here the position-weighted byte sum, 24 bits wide, written
\* into the trailer's four bytes)
RECURSIVE DigestRange(_, _, _)
DigestRange(data, lo, hi) ==
    IF lo > hi THEN 0
    ELSE IF lo = hi THEN (lo * (data[lo] + 1)) % 16777216
    ELSE LET mid == (lo + hi) \div 2
         IN (DigestRange(data, lo, mid) + DigestRange(data, mid + 1, hi)) % 16777216

Digest(data) == DigestRange(data, 1, Len(data))

Deflate(data) ==
    <<1>> \o LittleEndian(Len(data), 2) \o LittleEndian(65535 - Len(data), 2) \o data

GzipTrailer(data) ==
    LittleEndian(Digest(data), 4) \o LittleEndian(Len(data), 4)

\* gzip.NewWriter(buffer) on an empty buffer
NewWriter ==
    [wroteHeader |-> FALSE, pending |-> << >>, closed |-> FALSE, err |-> "nil",
     buffer |-> << >>, last |-> "nil"]

\* w.Write(data): the header goes out with the first write, the data stays in
\* the compressor until it is flushed; fails says the call reports an error
WriterWrite(w, data, fails) ==
    IF w.err # "nil" THEN [w EXCEPT !.last = w.err]
    ELSE LET hdr == IF w.wroteHeader THEN << >> ELSE GzipHeader
         IN IF fails
            THEN [w EXCEPT !.wroteHeader = TRUE, !.buffer = w.buffer \o hdr,
                           !.err = "write error", !.last = "write error"]
            ELSE [w EXCEPT !.wroteHeader = TRUE, !.buffer = w.buffer \o hdr,
                           !.pending = w.pending \o data, !.last = "nil"]

\* w.Close(): flushes the compressor and writes the trailer
WriterClose(w, fails) ==
    IF w.err # "nil" THEN [w EXCEPT !.last = w.err]
    ELSE IF w.closed THEN [w EXCEPT !.last = "nil"]
    ELSE LET hdr == IF w.wroteHeader THEN << >> ELSE GzipHeader
         IN IF fails
            THEN [w EXCEPT !.closed = TRUE, !.wroteHeader = TRUE,
                           !.buffer = w.buffer \o hdr,
                           !.err = "close error", !.last = "close error"]
            ELSE [w EXCEPT !.closed = TRUE, !.wroteHeader = TRUE,
                           !.buffer = w.buffer \o hdr \o Deflate(w.pending)
                                      \o GzipTrailer(w.pending),
                           !.pending = << >>, !.last = "nil"]

\* the deflate body that starts at data[pos]: the bytes it yields, how it
\* ends ("nil": at a final block) and where the trailer starts
RECURSIVE Inflate(_, _, _)
Inflate(data, pos, out) ==
    IF pos > Len(data) THEN [out |-> out, err |-> "io.ErrUnexpectedEOF", next |-> pos]
    ELSE IF (data[pos] \div 2) % 4 # 0
    THEN [out |-> out, err |-> "flate.CorruptInputError", next |-> pos]
    ELSE IF pos + 4 > Len(data)
    THEN [out |-> out, err |-> "io.ErrUnexpectedEOF", next |-> pos]
    ELSE LET n     == LittleEndianValue(SubSeq(data, pos + 1, pos + 2))
             nn    == LittleEndianValue(SubSeq(data, pos + 3, pos + 4))
             avail == Len(data) - (pos + 4)
         IN IF nn # 65535 - n
            THEN [out |-> out, err |-> "flate.CorruptInputError", next |-> pos]
            ELSE IF avail < n
            THEN [out |-> out \o SubSeq(data, pos + 5, Len(data)),
                  err |-> "io.ErrUnexpectedEOF", next |-> Len(data) + 1]
            ELSE IF data[pos] % 2 = 1
            THEN [out |-> out \o SubSeq(data, pos + 5, pos + 4 + n), err |-> "nil",
                  next |-> pos + 5 + n]
            ELSE Inflate(data, pos + 5 + n, out \o SubSeq(data, pos + 5, pos + 4 + n))

\* the error of reading a member header at data[pos], "nil" when it is valid
HeaderError(data, pos) ==
    IF pos > Len(data) THEN "io.EOF"
    ELSE IF pos + 9 > Len(data) THEN "io.ErrUnexpectedEOF"
    ELSE IF SubSeq(data, pos, pos + 2) # <<31, 139, 8>> THEN "gzip.ErrHeader"
    ELSE "nil"

\* what a reader opened at a valid header at data[pos] yields until its Read
\* reports an error: the members' bytes and that error (io.EOF at a clean end)
RECURSIVE ReadMembers(_, _, _)
ReadMembers(data, pos, out) ==
    LET body == Inflate(data, pos + 10, << >>)
    IN IF body.err # "nil" THEN [out |-> out \o body.out, err |-> body.err]
       ELSE IF body.next + 7 > Len(data)
       THEN [out |-> out \o body.out, err |-> "io.ErrUnexpectedEOF"]
       ELSE IF SubSeq(data, body.next, body.next + 7) # GzipTrailer(body.out)
       THEN [out |-> out \o body.out, err |-> "gzip.ErrChecksum"]
       ELSE IF HeaderError(data, body.next + 8) # "nil"
       THEN [out |-> out \o body.out, err |-> HeaderError(data, body.next + 8)]
       ELSE ReadMembers(data, body.next + 8, out \o body.out)

\* gzip.NewReader(bytes.NewReader(data)): fails on an invalid header
NewReader(data) ==
    IF HeaderError(data, 1) # "nil" THEN [err |-> HeaderError(data, 1)]
    ELSE [err |-> "nil", r |-> ReadMembers(data, 1, << >>)]

\* r.Read(temp[:]) into a buffer of size bytes: the last bytes come with the error
ReaderRead(r, size) ==
    IF Len(r.out) > size
    THEN [data |-> SubSeq(r.out, 1, size), err |-> "nil",
          r |-> [r EXCEPT !.out = SubSeq(r.out, size + 1, Len(r.out))]]
    ELSE [data |-> r.out, err |-> r.err, r |-> [r EXCEPT !.out = << >>]]

(***************************************************************************)
(* NewHeaderExtra                                                          *)
(***************************************************************************)
\* var temp [128]byte
ChunkSize == 128

\* the read loop: buffer is what was drained so far, reads counts the calls
RECURSIVE ReadLoop(_, _, _)
ReadLoop(r, buffer, reads) ==
    LET rd   == ReaderRead(r, ChunkSize)
        buf2 == IF Len(rd.data) > 0 THEN buffer \o rd.data ELSE buffer
    IN IF rd.err # "nil"
       THEN IF rd.err = "io.EOF"
            THEN [buffer |-> buf2, err |-> "nil", reads |-> reads + 1]
            ELSE [buffer |-> buf2, err |-> rd.err, reads |-> reads + 1]
       ELSE ReadLoop(rd.r, buf2, reads + 1)

Failed(e, events) == [value |-> ZeroHeaderExtra, err |-> e, events |-> events]

NewHeaderExtra(data) ==
    LET opened == NewReader(data)
    IN IF opened.err # "nil" THEN Failed(opened.err, <<"gzip.NewReader failed">>)
       ELSE LET drained == ReadLoop(opened.r, << >>, 0)
                events  == <<"gzip.NewReader">> \o [i \in 1..drained.reads |-> "r.Read"]
            IN IF drained.err # "nil" THEN Failed(drained.err, events)
               ELSE LET decoded == DecodeBytes(drained.buffer)
                    IN IF ~decoded.ok
                       THEN Failed("rlp error", events \o <<"rlp.DecodeBytes">>)
                       ELSE [value |-> decoded.val, err |-> "nil",
                             events |-> events \o <<"rlp.DecodeBytes">>]

(***************************************************************************)
(* Encode. fault names the library call that reports an error, "none" when *)
(* every call succeeds.                                                    *)
(***************************************************************************)
\* an Encode that takes the buffer's bytes without closing the writer
EncodeWithoutClose(headerExtra, fault) ==
    IF fault = "rlp"
    THEN [bytes |-> << >>, err |-> "rlp error", events |-> <<"rlp.EncodeToBytes">>]
    ELSE LET data == EncodeToBytes(headerExtra)
             w1   == WriterWrite(NewWriter, data, fault = "write")
         IN [bytes |-> w1.buffer, err |-> "nil",
             events |-> <<"rlp.EncodeToBytes", "gzip.NewWriter", "w.Write",
                          "buffer.Bytes">>]

Encode(headerExtra, fault) ==
    IF fault = "rlp"
    THEN [bytes |-> << >>, err |-> "rlp error", events |-> <<"rlp.EncodeToBytes">>]
    ELSE LET data == EncodeToBytes(headerExtra)
             w1   == WriterWrite(NewWriter, data, fault = "write")
             w2   == WriterClose(w1, fault = "close")
         IN [bytes |-> w2.buffer, err |-> "nil",
             events |-> <<"rlp.EncodeToBytes", "gzip.NewWriter", "w.Write", "w.Close",
                          "buffer.Bytes">>]

(***************************************************************************)
(* DecodeHeaderExtra. extraVanity and extraSeal are the package's boundary *)
(* lengths, taken here as arguments.                                       *)
(***************************************************************************)
\* a second check that also rejects a blob of exactly vanity plus seal bytes
DecodeHeaderExtraStrict(header, extraVanity, extraSeal) ==
    LET headerExtra == header.Extra
    IN IF Len(headerExtra) < extraVanity
       THEN [value |-> ZeroHeaderExtra, err |-> "errMissingVanity", handed |-> << >>]
       ELSE IF Len(headerExtra) <= extraVanity + extraSeal
       THEN [value |-> ZeroHeaderExtra, err |-> "errMissingSignature", handed |-> << >>]
       ELSE LET middle == SubSeq(headerExtra, extraVanity + 1, Len(headerExtra) - extraSeal)
                r      == NewHeaderExtra(middle)
            IN [value |-> r.value, err |-> r.err, handed |-> <<middle>>]

DecodeHeaderExtra(header, extraVanity, extraSeal) ==
    LET headerExtra == header.Extra
    IN IF Len(headerExtra) < extraVanity
       THEN [value |-> ZeroHeaderExtra, err |-> "errMissingVanity", handed |-> << >>]
       ELSE IF Len(headerExtra) < extraVanity + extraSeal
       THEN [value |-> ZeroHeaderExtra, err |-> "errMissingSignature", handed |-> << >>]
       ELSE LET middle == SubSeq(headerExtra, extraVanity + 1, Len(headerExtra) - extraSeal)
                r      == NewHeaderExtra(middle)
            IN [value |-> r.value, err |-> r.err, handed |-> <<middle>>]

(***************************************************************************)
(* Payloads handed to Equal and Encode. A payload's weight counts its      *)
(* list elements and its scalar fields that differ from the zero payload.  *)
(***************************************************************************)
PayloadRoots    == {ZeroRoot, [ZeroRoot EXCEPT !.EpochHash = HashOf(1)],
                    [ZeroRoot EXCEPT !.ConfigHash = HashOf(2)]}
PayloadAddress  == {AddrA, AddrB}
PayloadConfigs  == {[Period |-> 0, Epoch |-> 1], [Period |-> 1, Epoch |-> 1]}

\* the values of the k-th field (in struct order) of weight at most w
FieldValues(k, w) ==
    CASE k = 1 -> IF w = 0 THEN {ZeroRoot} ELSE PayloadRoots
      [] k = 2 -> {200 * i : i \in 0..(IF w < MaxEpoch THEN w ELSE MaxEpoch)}
      [] k = 3 -> 0..(IF w < MaxEpoch THEN w ELSE MaxEpoch)
      [] k \in 4..7 -> SeqsUpTo(PayloadAddress, w)
      [] OTHER -> SeqsUpTo(PayloadConfigs, w)

FieldWeight(k, v) ==
    CASE k = 1 -> IF v = ZeroRoot THEN 0 ELSE 1
      [] k \in {2, 3} -> IF v = 0 THEN 0 ELSE 1
      [] OTHER -> Len(v)

Weight(p) ==
    FieldWeight(1, p.Root) + FieldWeight(2, p.Epoch) + FieldWeight(3, p.EpochBlock)
    + Len(p.CurrentBlockCandidates) + Len(p.CurrentBlockKickOutCandidates)
    + Len(p.CurrentBlockCancelCandidates) + Len(p.CurrentEpochValidators)
    + Len(p.ChainConfig)

\* P holds of some payload of weight at most w
SomePayload(w, P(_)) ==
    \E root \in FieldValues(1, w) :
    \E epoch \in FieldValues(2, w - FieldWeight(1, root)) :
    \E epochBlock \in FieldValues(3, w - FieldWeight(1, root) - FieldWeight(2, epoch)) :
    LET w3 == w - FieldWeight(1, root) - FieldWeight(2, epoch) - FieldWeight(3, epochBlock)
    IN \E candidates \in FieldValues(4, w3) :
       \E kickOut \in FieldValues(5, w3 - Len(candidates)) :
       \E cancel \in FieldValues(6, w3 - Len(candidates) - Len(kickOut)) :
       LET w6 == w3 - Len(candidates) - Len(kickOut) - Len(cancel)
       IN \E validators \in FieldValues(7, w6) :
          \E configs \in FieldValues(8, w6 - Len(validators)) :
             P([Root |-> root, Epoch |-> epoch, EpochBlock |-> epochBlock,
                CurrentBlockCandidates |-> candidates,
                CurrentBlockKickOutCandidates |-> kickOut,
                CurrentBlockCancelCandidates |-> cancel,
                CurrentEpochValidators |-> validators,
                ChainConfig |-> configs])

(***************************************************************************)
(* Inputs                                                                  *)
(***************************************************************************)
AddrSeqs == SeqsUpTo(Address, MaxLen)

NoRet == [none |-> TRUE]

InitExist ==
    /\ op = "addressesExist"
    /\ \E s \in AddrSeqs, x \in Address :
          /\ args = [slice |-> SliceOf(1, Len(s)), addr |-> x, before |-> s]
          /\ heap = <<s>>

InitDistinct ==
    /\ op = "addressesDistinct"
    /\ \E s \in AddrSeqs :
          /\ args = [slice |-> SliceOf(1, Len(s)), before |-> s]
          /\ heap = <<s>>

InitRemove ==
    /\ op = "addressesRemove"
    /\ \E s \in AddrSeqs, x \in Address :
          /\ args = [slice |-> SliceOf(1, Len(s)), addr |-> x, before |-> s]
          /\ heap = <<s>>

InitPrintDifference ==
    /\ op = "PrintDifference"
    /\ \E a \in Root, b \in Root, n \in 0..MaxNumber :
          args = [root |-> a, number |-> n, other |-> b]
    /\ heap = << >>

InitEqual ==
    /\ op = "Equal"
    /\ SomePayload(MaxPairWeight, LAMBDA a : args = [headerExtra |-> a])
    /\ heap = << >>

\* what reaches NewHeaderExtra: the bytes Encode produced, intact or damaged
Corruptions == {"none", "empty", "cutHeader", "badMagic", "cutBody", "cutTrailer",
                "badChecksum", "trailingByte", "twoMembers", "cutPayload"}

Corrupt(c, wire, headerExtra) ==
    CASE c = "none"         -> wire
      [] c = "empty"        -> << >>
      [] c = "cutHeader"    -> SubSeq(wire, 1, 5)
      [] c = "badMagic"     -> [wire EXCEPT ![2] = 0]
      [] c = "cutBody"      -> SubSeq(wire, 1, Len(wire) \div 2)
      [] c = "cutTrailer"   -> SubSeq(wire, 1, Len(wire) - 3)
      [] c = "badChecksum"  -> [wire EXCEPT ![Len(wire) - 7] = (@ + 1) % 256]
      [] c = "trailingByte" -> wire \o <<0>>
      [] c = "twoMembers"   -> wire \o wire
      [] OTHER              -> \* a sound stream around a serialization cut short
                               LET data == EncodeToBytes(headerExtra)
                                   cut  == SubSeq(data, 1, Len(data) - 1)
                               IN GzipHeader \o Deflate(cut) \o GzipTrailer(cut)

InitEncode ==
    /\ op = "Encode"
    /\ SomePayload(MaxWeight, LAMBDA p : args = [headerExtra |-> p, fault |-> "none"])
    /\ heap = << >>

\* Encode in an environment where a library call reports an error
InitEncodeFault ==
    /\ op = "Encode"
    /\ SomePayload(MaxWeight, LAMBDA p :
          \E f \in {"rlp", "write", "close"} : args = [headerExtra |-> p, fault |-> f])
    /\ heap = << >>

InitNewHeaderExtra ==
    /\ op = "NewHeaderExtra"
    /\ SomePayload(MaxWeight, LAMBDA p :
          \E c \in Corruptions :
             args = [data |-> Corrupt(c, Encode(p, "none").bytes, p),
                     from |-> p, corruption |-> c])
    /\ heap = << >>

Ramp(n) == [k \in 1..n |-> k]

SamplePayload ==
    [ZeroHeaderExtra EXCEPT !.Epoch = 400, !.EpochBlock = 1,
                            !.CurrentBlockCandidates = <<AddrA, AddrB>>,
                            !.ChainConfig = <<[Period |-> 1, Epoch |-> 0]>>]

SampleWires == {Encode(ZeroHeaderExtra, "none").bytes, Encode(SamplePayload, "none").bytes}

\* header extra-data: bytes that tell their position, and vanity || payload || seal
Blobs ==
    {Ramp(n) : n \in 0..(MaxVanity + MaxSeal + 1)}
    \cup {Ramp(i) \o wire \o Ramp(j) : i \in 0..MaxVanity, j \in 0..MaxSeal,
                                        wire \in SampleWires}

InitDecodeHeaderExtra ==
    /\ op = "DecodeHeaderExtra"
    /\ \E v \in 1..MaxVanity, s \in 1..MaxSeal, blob \in Blobs :
          args = [header |-> [Extra |-> blob], extraVanity |-> v, extraSeal |-> s]
    /\ heap = << >>

Init ==
    /\ pc = "call"
    /\ ret = NoRet
    /\ \/ InitExist
       \/ InitDistinct
       \/ InitRemove
       \/ InitPrintDifference
       \/ InitEqual
       \/ InitEncode
       \/ InitNewHeaderExtra
       \/ InitDecodeHeaderExtra

\* Init and the calls of Encode in which a library call reports an error
InitFault ==
    \/ Init
    \/ /\ pc = "call"
       /\ ret = NoRet
       /\ InitEncodeFault

(***************************************************************************)
(* Actions: one per function of the file                                   *)
(***************************************************************************)
CallAddressesExist ==
    /\ pc = "call" /\ op = "addressesExist"
    /\ ret' = [found |-> addressesExist(heap, args.slice, args.addr)]
    /\ pc' = "done"
    /\ UNCHANGED <<op, args, heap>>

CallAddressesDistinct ==
    /\ pc = "call" /\ op = "addressesDistinct"
    /\ LET r == addressesDistinct(heap, args.slice)
       IN /\ ret' = [result |-> r.slice]
          /\ heap' = r.heap
    /\ pc' = "done"
    /\ UNCHANGED <<op, args>>

CallAddressesRemove ==
    /\ pc = "call" /\ op = "addressesRemove"
    /\ LET r == addressesRemove(heap, args.slice, args.addr)
       IN /\ ret' = [result |-> r.slice]
          /\ heap' = r.heap
    /\ pc' = "done"
    /\ UNCHANGED <<op, args>>

CallPrintDifference ==
    /\ pc = "call" /\ op = "PrintDifference"
    /\ ret' = [text |-> PrintDifference(args.root, args.number, args.other)]
    /\ pc' = "done"
    /\ UNCHANGED <<op, args, heap>>

CallEqual ==
    /\ pc = "call" /\ op = "Equal"
    /\ SomePayload(MaxPairWeight - Weight(args.headerExtra), LAMBDA other :
          /\ args' = [headerExtra |-> args.headerExtra, other |-> other]
          /\ ret' = [equal |-> Equal(args.headerExtra, other)])
    /\ pc' = "done"
    /\ UNCHANGED <<op, heap>>

CallEncode ==
    /\ pc = "call" /\ op = "Encode"
    /\ ret' = Encode(args.headerExtra, args.fault)
    /\ pc' = "done"
    /\ UNCHANGED <<op, args, heap>>

CallNewHeaderExtra ==
    /\ pc = "call" /\ op = "NewHeaderExtra"
    /\ ret' = NewHeaderExtra(args.data)
    /\ pc' = "done"
    /\ UNCHANGED <<op, args, heap>>

CallDecodeHeaderExtra ==
    /\ pc = "call" /\ op = "DecodeHeaderExtra"
    /\ ret' = DecodeHeaderExtra(args.header, args.extraVanity, args.extraSeal)
    /\ pc' = "done"
    /\ UNCHANGED <<op, args, heap>>

Next ==
    \/ CallAddressesExist
    \/ CallAddressesDistinct
    \/ CallAddressesRemove
    \/ CallPrintDifference
    \/ CallEqual
    \/ CallEncode
    \/ CallNewHeaderExtra
    \/ CallDecodeHeaderExtra

Spec == Init /\ [][Next]_vars

\* the same calls, and Encode with a failing library call
SpecFault == InitFault /\ [][Next]_vars

Done(name) == pc = "done" /\ op = name

(***************************************************************************)
(* Properties                                                              *)
(***************************************************************************)
Range(s) == {s[i] : i \in 1..Len(s)}

\* the indexes of s that hold the first occurrence of their address
FirstIdx(s) == {i \in 1..Len(s) : \A j \in 1..(i - 1) : s[j] # s[i]}

\* s cut down to the first occurrence of each address, written without a loop
FirstOccurrences(s) ==
    [k \in 1..Cardinality(FirstIdx(s)) |->
        s[CHOOSE i \in FirstIdx(s) : Cardinality({j \in FirstIdx(s) : j <= i}) = k]]

NoDuplicates(s) == \A i, j \in 1..Len(s) : i # j => s[i] # s[j]

\* C5: addressesDistinct returns a slice without duplicates that holds exactly
\* the addresses of its input in the order of their first occurrence
\* ([A,B,A,C] gives [A,B,C]), and applying it to its own result changes nothing.
C5_DistinctLaw ==
    Done("addressesDistinct") =>
        LET out   == View(heap, ret.result)
            again == addressesDistinct(heap, ret.result)
        IN /\ NoDuplicates(out)
           /\ Range(out) = Range(args.before)
           /\ out = FirstOccurrences(args.before)
           /\ View(again.heap, again.slice) = out
           /\ args.before = <<AddrA, AddrB, AddrA, AddrC>> => out = <<AddrA, AddrB, AddrC>>

C5_Witness ==
    /\ Done("addressesDistinct")
    /\ args.before = <<AddrA, AddrB, AddrA, AddrC>>
    /\ View(heap, ret.result) = <<AddrA, AddrB, AddrC>>

\* C6: addressesRemove(s, x) no longer contains x, is s with every occurrence
\* of x deleted and the other addresses in their order ([A,B,C] without B is
\* [A,C]), and equals s when x does not occur in s.
C6_RemoveLaw ==
    Done("addressesRemove") =>
        LET out == View(heap, ret.result)
            s   == args.before
            x   == args.addr
        IN /\ ~addressesExist(heap, ret.result, x)
           /\ out = SelectSeq(s, LAMBDA a : a # x)
           /\ (x \notin Range(s)) => out = s
           /\ (s = <<AddrA, AddrB, AddrC>> /\ x = AddrB) => out = <<AddrA, AddrC>>

C6_Witness ==
    /\ Done("addressesRemove")
    /\ args.before = <<AddrB, AddrA, AddrB, AddrC>>
    /\ args.addr = AddrB
    /\ View(heap, ret.result) = <<AddrA, AddrC>>

HelperOps == {"addressesExist", "addressesDistinct", "addressesRemove"}

\* C9: when an address helper has returned, the caller's slice has the length
\* and the address at every index that it had before the call.
C9_InputUnchanged ==
    (pc = "done" /\ op \in HelperOps) =>
        /\ View(heap, args.slice) = args.before
        /\ heap[args.slice.arr] = args.before

\* a removal that drops an address in front of one it keeps: the in-place
\* idiom would have overwritten the caller's array here
C9_Witness ==
    /\ Done("addressesRemove")
    /\ args.before = <<AddrB, AddrA, AddrC>>
    /\ args.addr = AddrB
    /\ View(heap, ret.result) = <<AddrA, AddrC>>
    /\ ret.result.arr # args.slice.arr
    /\ View(heap, args.slice) = args.before

RootFields == <<"EpochHash", "CandidateHash", "MintCntHash", "ConfigHash">>

Mismatching(a, b) == {k \in 1..4 : a[RootFields[k]] # b[RootFields[k]]}

\* lines is the block-number line followed by one line per mismatching field
ReportBody(lines, a, n, b) ==
    /\ Len(lines) = 1 + Cardinality(Mismatching(a, b))
    /\ lines[1] = <<"BlockNumber", n>>
    /\ \A k \in 1..4 :
          LET f    == RootFields[k]
              at   == {i \in 2..Len(lines) : lines[i][1] = f}
          IN IF k \in Mismatching(a, b)
             THEN /\ Cardinality(at) = 1
                  /\ \A i \in at : /\ lines[i] = <<f, HashString(a[f]), HashString(b[f])>>
                                    /\ lines[i][2] # lines[i][3]
             ELSE at = {}

\* C7 as stated: the printed text starts with the line "BlockNumber: n", and
\* the lines after it are one "<Field>: <a> ---- <b>" line per mismatching field.
C7_AsStated ==
    Done("PrintDifference") => ReportBody(ret.text, args.root, args.number, args.other)

\* C7 as amended: the printed text starts with the fixed banner line, the line
\* after the banner is "BlockNumber: n", and the lines after that are exactly
\* one "<Field>: <a> ---- <b>" line per mismatching field (0 to 4 of them) and
\* none for a field whose values match.
C7_ReportAfterBanner ==
    Done("PrintDifference") =>
        /\ Len(ret.text) >= 1
        /\ ret.text[1] = Banner
        /\ ReportBody(Tail(ret.text), args.root, args.number, args.other)

\* roots whose CandidateHash and ConfigHash differ while the other two match
C7_Witness ==
    /\ Done("PrintDifference")
    /\ Mismatching(args.root, args.other) = {2, 4}
    /\ Len(ret.text) = 4
    /\ ret.text[3][1] = "CandidateHash"
    /\ ret.text[4][1] = "ConfigHash"
AddressLists == {"CurrentBlockCandidates", "CurrentBlockKickOutCandidates",
                 "CurrentBlockCancelCandidates", "CurrentEpochValidators"}

\* a and b agree field for field and index for index
FieldwiseSame(a, b) ==
    /\ \A k \in 1..4 : a.Root[RootFields[k]] = b.Root[RootFields[k]]
    /\ a.Epoch = b.Epoch
    /\ a.EpochBlock = b.EpochBlock
    /\ Len(a.ChainConfig) = Len(b.ChainConfig)
    /\ \A i \in 1..Len(a.ChainConfig) : ConfigEqual(a.ChainConfig[i], b.ChainConfig[i])
    /\ \A f \in AddressLists :
          /\ Len(a[f]) = Len(b[f])
          /\ \A i \in 1..Len(a[f]) : a[f][i] = b[f][i]

SameMultiset(s, t) ==
    \A x \in Range(s) \cup Range(t) :
        Cardinality({i \in 1..Len(s) : s[i] = x}) = Cardinality({i \in 1..Len(t) : t[i] = x})

\* C3: Equal(a, b) is true exactly when Root, Epoch, EpochBlock match and each
\* of the five lists has the same length and equal elements at every index;
\* payloads that differ only in the order of CurrentBlockCandidates are not equal.
C3_EqualIsFieldwise ==
    Done("Equal") =>
        LET a == args.headerExtra
            b == args.other
        IN /\ ret.equal <=> FieldwiseSame(a, b)
           /\ (/\ [a EXCEPT !.CurrentBlockCandidates = << >>]
                    = [b EXCEPT !.CurrentBlockCandidates = << >>]
               /\ SameMultiset(a.CurrentBlockCandidates, b.CurrentBlockCandidates)
               /\ a.CurrentBlockCandidates # b.CurrentBlockCandidates)
              => ret.equal = FALSE

C3_Witness ==
    /\ Done("Equal")
    /\ args.headerExtra.CurrentBlockCandidates = <<AddrA, AddrB>>
    /\ args.other.CurrentBlockCandidates = <<AddrB, AddrA>>
    /\ [args.headerExtra EXCEPT !.CurrentBlockCandidates = << >>]
          = [args.other EXCEPT !.CurrentBlockCandidates = << >>]
    /\ ret.equal = FALSE

\* C4: Equal is reflexive, p.Equal(p) is true, and symmetric, a.Equal(b) is
\* b.Equal(a), also when the lists of a and b differ in length.
C4_EqualReflexiveSymmetric ==
    Done("Equal") =>
        /\ ret.equal = Equal(args.other, args.headerExtra)
        /\ Equal(args.headerExtra, args.headerExtra)
        /\ (args.headerExtra = args.other) => ret.equal

\* a receiver whose validator list is a proper prefix of the argument's
C4_Witness ==
    /\ Done("Equal")
    /\ args.headerExtra.CurrentEpochValidators = <<AddrA>>
    /\ args.other.CurrentEpochValidators = <<AddrA, AddrB>>
    /\ [args.headerExtra EXCEPT !.CurrentEpochValidators = << >>]
          = [args.other EXCEPT !.CurrentEpochValidators = << >>]
    /\ ret.equal = FALSE
    /\ Equal(args.other, args.headerExtra) = FALSE
\* C1: DecodeHeaderExtra fails with errMissingVanity when the blob is shorter
\* than the vanity, with errMissingSignature when it holds the vanity but is
\* shorter than vanity plus seal (so at vanity + seal - 1 bytes of any
\* content), and otherwise returns neither error and hands the decoder exactly
\* blob[vanity : len(blob) - seal], which may be empty.
C1_BoundaryLaw ==
    Done("DecodeHeaderExtra") =>
        LET b == args.header.Extra
            v == args.extraVanity
            s == args.extraSeal
        IN /\ Len(b) < v => ret.err = "errMissingVanity" /\ ret.handed = << >>
           /\ (v <= Len(b) /\ Len(b) < v + s) =>
                 ret.err = "errMissingSignature" /\ ret.handed = << >>
           /\ Len(b) = v + s - 1 => ret.err = "errMissingSignature"
           /\ Len(b) >= v + s =>
                 /\ ret.err \notin {"errMissingVanity", "errMissingSignature"}
                 /\ ret.handed = << [i \in 1..(Len(b) - v - s) |-> b[v + i]] >>

\* a blob of exactly vanity + seal bytes: the decoder is handed the empty slice
C1_Witness ==
    /\ Done("DecodeHeaderExtra")
    /\ Len(args.header.Extra) = args.extraVanity + args.extraSeal
    /\ ret.handed = << << >> >>
    /\ ret.err = "io.EOF"

\* C2: Encode(p) succeeds for every payload p, and NewHeaderExtra of the bytes
\* it returns succeeds with a payload q that p.Equal(q) accepts and that matches
\* p field for field and index for index.
C2_RoundTrip ==
    /\ Done("Encode") => ret.err = "nil"
    /\ (Done("NewHeaderExtra") /\ args.corruption = "none") =>
          /\ ret.err = "nil"
          /\ Equal(args.from, ret.value)
          /\ FieldwiseSame(args.from, ret.value)

\* the round trip of a payload whose candidates are not in sorted order
C2_Witness ==
    /\ Done("NewHeaderExtra")
    /\ args.corruption = "none"
    /\ args.data = Encode(args.from, "none").bytes
    /\ args.from.CurrentBlockCandidates = <<AddrB, AddrA>>
    /\ ret.value = args.from
    /\ ret.err = "nil"

\* what reading args.data as a gzip stream and deserializing it runs into
DecodeFailure(data) ==
    LET opened == NewReader(data)
    IN \/ opened.err # "nil"
       \/ opened.err = "nil" /\ opened.r.err # "io.EOF"
       \/ opened.err = "nil" /\ opened.r.err = "io.EOF" /\ ~DecodeBytes(opened.r.out).ok

\* the half of C8 about NewHeaderExtra: an invalid stream header, a read that
\* fails with anything but a clean end of stream, or bytes that do not
\* deserialize make it return an error and the zero payload.
C8_DecodeFailuresReturned ==
    Done("NewHeaderExtra") =>
        (DecodeFailure(args.data) <=> ret.err # "nil")
        /\ (ret.err # "nil" => ret.value = ZeroHeaderExtra)

StreamsClosed(events) ==
    \A i \in 1..Len(events) :
        /\ events[i] = "gzip.NewWriter" => \E j \in (i + 1)..Len(events) : events[j] = "w.Close"
        /\ events[i] = "gzip.NewReader" => \E j \in (i + 1)..Len(events) : events[j] = "r.Close"

\* C10: when Encode or NewHeaderExtra returns, with or without an error, every
\* gzip writer or reader it opened has been closed, and Encode closes its
\* writer before it takes the buffer's bytes.
C10_StreamsClosed ==
    (pc = "done" /\ op \in {"Encode", "NewHeaderExtra"}) =>
        /\ StreamsClosed(ret.events)
        /\ \A i \in 1..Len(ret.events) :
              ret.events[i] = "buffer.Bytes" =>
                  \E j \in 1..(i - 1) : ret.events[j] = "w.Close"
====
